---- MODULE Spec2Model ----
(***************************************************************************)
(* The invite-only sign-in gate of packages/database/auth/auth-options.ts: *)
(* the signIn callback of authOptions, its allow-list, and the three       *)
(* tables it reads (users, organizationMembers, organizationInvites).      *)
(*                                                                         *)
(* A JavaScript string is a sequence of one-character strings, so that     *)
(* toLowerCase and trim are computed character by character.  A JavaScript *)
(* value is a record [t, s]: t is the result of typeof, s the characters   *)
(* of a string (<<>> for the other types).                                 *)
(***************************************************************************)
EXTENDS Integers, Sequences, FiniteSets, TLC

\* ------------------------------------------------------------------ bounds
\* longest run of white space put before and after a candidate email
MaxPad == 1
\* number of user identifiers the users table can hold
MaxUsers == 2

\* ------------------------------------------------------- JavaScript values
Undef == [t |-> "undefined", s |-> <<>>]
Obj == [t |-> "object", s |-> <<>>]
Str(chars) == [t |-> "string", s |-> chars]

\* typeof v === "string"
IsString(v) == v.t = "string"

\* ToBoolean(v): undefined/null and the empty string are falsy, an object
\* and a non-empty string are truthy
Truthy(v) ==
    CASE v.t = "undefined" -> FALSE
      [] v.t = "string" -> Len(v.s) > 0
      [] OTHER -> TRUE

\* ---------------------------------------------------------------- strings
UpperLetters ==
    <<"A", "B", "C", "D", "E", "F", "G", "H", "I", "J", "K", "L", "M",
      "N", "O", "P", "Q", "R", "S", "T", "U", "V", "W", "X", "Y", "Z">>
LowerLetters ==
    <<"a", "b", "c", "d", "e", "f", "g", "h", "i", "j", "k", "l", "m",
      "n", "o", "p", "q", "r", "s", "t", "u", "v", "w", "x", "y", "z">>

\* white space as String.prototype.trim understands it (space and tab here)
WhiteSpace == {" ", "\t"}

\* the lower-case letter of every upper-case letter, and the converse
LowerOf ==
    [c \in {UpperLetters[i] : i \in 1..Len(UpperLetters)} |->
        LowerLetters[CHOOSE i \in 1..Len(UpperLetters) : UpperLetters[i] = c]]
UpperOf ==
    [c \in {LowerLetters[i] : i \in 1..Len(LowerLetters)} |->
        UpperLetters[CHOOSE i \in 1..Len(LowerLetters) : LowerLetters[i] = c]]

LowerChar(c) == IF c \in DOMAIN LowerOf THEN LowerOf[c] ELSE c

UpperChar(c) == IF c \in DOMAIN UpperOf THEN UpperOf[c] ELSE c

\* String.prototype.toLowerCase
ToLowerCase(str) == [i \in 1..Len(str) |-> LowerChar(str[i])]

\* String.prototype.toUpperCase (used to build candidate inputs only)
ToUpperCase(str) == [i \in 1..Len(str) |-> UpperChar(str[i])]

RECURSIVE TrimStart(_)
TrimStart(str) ==
    IF str = <<>> THEN str
    ELSE IF Head(str) \in WhiteSpace THEN TrimStart(Tail(str))
    ELSE str

RECURSIVE TrimEnd(_)
TrimEnd(str) ==
    IF str = <<>> THEN str
    ELSE IF str[Len(str)] \in WhiteSpace
         THEN TrimEnd(SubSeq(str, 1, Len(str) - 1))
    ELSE str

\* String.prototype.trim
Trim(str) == TrimEnd(TrimStart(str))

\* normalization that forgets to trim
NormalizeWithoutTrim(str) == ToLowerCase(str)
\* const normalizedEmail = userEmail.toLowerCase().trim();
Normalize(str) == Trim(ToLowerCase(str))

\* ------------------------------------------------------------- allow-list
GustavoEmail ==
    <<"g", "u", "s", "t", "a", "v", "o", ".", "t", "o", "l", "e", "d", "o",
      "@", "g", "m", "a", "i", "l", ".", "c", "o", "m">>
JohannaEmail ==
    <<"j", "o", "h", "a", "n", "n", "a", "o", "s", "o", "r", "i", "o", "l",
      "i", "z", "a", "r", "a", "z", "o",
      "@", "g", "m", "a", "i", "l", ".", "c", "o", "m">>

\* new Set([...].map((e) => e.toLowerCase()))
INVITE_ONLY_ALLOWED_EMAILS ==
    {ToLowerCase(e) : e \in {GustavoEmail, JohannaEmail}}

\* INVITE_ONLY_ALLOWED_EMAILS.has(normalizedEmail)
AllowListed(normalized) == normalized \in INVITE_ONLY_ALLOWED_EMAILS


\* ------------------------------------------------------ candidate inputs
\* "foo@bar.com", the address of the case-insensitivity example
FooEmail == <<"f", "o", "o", "@", "b", "a", "r", ".", "c", "o", "m">>
\* the same address with white space inside it, which trim leaves in place
FooSpaced == <<"f", "o", "o", " ", "@", "b", "a", "r", ".", "c", "o", "m">>

Spaces(n) == [i \in 1..n |-> " "]
Tabs(n) == [i \in 1..n |-> "\t"]

\* first letter in upper case, the rest as written
Capitalize(str) ==
    IF str = <<>> THEN str ELSE <<UpperChar(Head(str))>> \o Tail(str)

BaseStrings == {GustavoEmail, JohannaEmail, FooEmail, FooSpaced, <<>>}

\* every base string in three letter cases, with up to MaxPad blanks in
\* front and up to MaxPad tabs behind
CandidateStrings ==
    {Spaces(l) \o c \o Tabs(r) :
        l \in 0..MaxPad, r \in 0..MaxPad,
        c \in UNION {{b, ToUpperCase(b), Capitalize(b)} : b \in BaseStrings}}

\* the values the other two arguments take while one argument ranges over
\* CandidateStrings: absent, a non-string, the empty string, an address
SmallValues == {Undef, Obj, Str(<<>>), Str(FooEmail)}

CandidateValues == SmallValues \cup {Str(c) : c \in CandidateStrings}

\* <<user.email, email, credentials.email>> of one signIn call
Attempts ==
    (CandidateValues \X SmallValues \X SmallValues)
    \cup (SmallValues \X CandidateValues \X SmallValues)
    \cup (SmallValues \X SmallValues \X CandidateValues)

\* attempts that carry only user.email (the candidate email of the policy)
EmailOnlyAttempts == {<<Str(c), Undef, Undef>> : c \in CandidateStrings}

\* ----------------------------------------------------------------- tables
\* emails found in the tables; they are stored normalized
StoredEmails == {GustavoEmail, FooEmail}
UserIds == 1..MaxUsers

\* users: rows [id, email]; id is the primary key and email is unique
UsersTables ==
    {t \in SUBSET [id : UserIds, email : StoredEmails] :
        \A r1, r2 \in t : (r1.id = r2.id \/ r1.email = r2.email) => r1 = r2}

VARIABLES
    users,            \* the users table: set of rows [id, email]
    members,          \* organizationMembers projected on userId: the ids
                      \* of the users that have a membership row
    invites,          \* organizationInvites projected on email: the
                      \* emails that have an invite row
    pc,               \* where the signIn call stands
    attempt,          \* <<user.email, email, credentials.email>>
    normalizedEmail,  \* the local normalizedEmail (Undef before it is set)
    existingUser,     \* existingUser?.id, 0 while there is none
    result,           \* "pending", "true" or "false": the value returned
    lookups,          \* the queries issued by the call, in order
    logs,             \* the console.warn lines of the call
    failedAt,         \* index of the query that threw, 0 if none did
    history,          \* what the tables held throughout the running call
    prev              \* the previous finished call (set = FALSE if none)

vars == <<users, members, invites, pc, attempt, normalizedEmail,
          existingUser, result, lookups, logs, failedAt, history, prev>>

db == <<users, members, invites>>

NoPrev == [set |-> FALSE, key |-> <<>>, result |-> "pending",
           lookups |-> <<>>, logs |-> <<>>]

\* ------------------------------------------------------------ the queries
\* a users query whose where clause is lost: any user row matches
SelectUsersOfAnyone(key) == users
\* db().select({id}).from(users).where(eq(users.email, key)).limit(1)
SelectUsers(key) == {u \in users : u.email = key}

\* a members query whose where clause is lost: any membership row matches
SelectMembersOfAnyone(id) == members
\* db().select({id}).from(organizationMembers)
\*     .where(eq(organizationMembers.userId, id)).limit(1)
SelectMembers(id) == {m \in members : m = id}

\* an invites query whose where clause is lost: any invite row matches
SelectInvitesOfAnyone(key) == invites
\* db().select({id}).from(organizationInvites)
\*     .where(eq(organizationInvites.email, key)).limit(1)
SelectInvites(key) == {i \in invites : i = key}

\* rows.length >= 0 written for rows.length > 0
HasRowsOrNone(rows) == Cardinality(rows) >= 0
\* member.length > 0, invite.length > 0
HasRows(rows) == Cardinality(rows) > 0

UsersQuery(key) == [table |-> "users", email |-> key, userId |-> 0]
MembersQuery(id) ==
    [table |-> "organizationMembers", email |-> <<>>, userId |-> id]
InvitesQuery(key) ==
    [table |-> "organizationInvites", email |-> key, userId |-> 0]

\* a warning that leaves the email out
BlockedLineWithoutEmail(normalized) ==
    [level |-> "warn", text |-> "Signup blocked (invite-only): ",
     email |-> <<>>]
\* console.warn(`Signup blocked (invite-only): ${normalizedEmail}`)
BlockedLine(normalized) ==
    [level |-> "warn", text |-> "Signup blocked (invite-only): ",
     email |-> normalized]

\* --------------------------------------------------------------- signIn
\* user?.email || (typeof email === "string" ? email
\*     : typeof credentials?.email === "string" ? credentials.email : null)
ResolveEmail(a) ==
    IF Truthy(a[1]) THEN a[1]
    ELSE IF IsString(a[2]) THEN a[2]
    ELSE IF IsString(a[3]) THEN a[3]
    ELSE Undef

\* the guard without its !userEmail half
MissingEmailTypeOnly(userEmail) == ~IsString(userEmail)
\* !userEmail || typeof userEmail !== "string"
MissingEmail(userEmail) == ~Truthy(userEmail) \/ ~IsString(userEmail)

\* member of some organization, or invited, in the tables us, ms, is
IsMember(us, ms, key) == \E u \in us : u.email = key /\ u.id \in ms
IsInvited(is, key) == key \in is

\* the history of a call that starts on tables us, ms, is with key
StartHistory(us, ms, is, key) ==
    [running |-> TRUE,
     alwaysAuth |-> IsMember(us, ms, key) \/ IsInvited(is, key),
     neverAuth |-> ~(IsMember(us, ms, key) \/ IsInvited(is, key))]

NoHistory ==
    [running |-> FALSE, alwaysAuth |-> FALSE, neverAuth |-> FALSE]

\* the history once the tables have become us, ms, is during the call
Observe(us, ms, is) ==
    IF history.running /\ pc \in {"awaitUsers", "awaitMembers",
                                   "awaitInvites"}
    THEN LET key == normalizedEmail.s IN
         [running |-> TRUE,
          alwaysAuth |-> history.alwaysAuth
                /\ (IsMember(us, ms, key) \/ IsInvited(is, key)),
          neverAuth |-> history.neverAuth
                /\ ~(IsMember(us, ms, key) \/ IsInvited(is, key))]
    ELSE history

\* lines 128-152: resolve the email, block a missing one, normalize, pass
\* the allow-list, otherwise issue the users query and await it
Call(inputs) ==
    /\ pc = "idle"
    /\ \E a \in inputs :
        LET userEmail == ResolveEmail(a) IN
        /\ attempt' = a
        /\ IF MissingEmail(userEmail)
           THEN /\ result' = "false"
                /\ pc' = "done"
                /\ UNCHANGED <<normalizedEmail, lookups, history>>
           ELSE LET normalized == Normalize(userEmail.s) IN
                /\ normalizedEmail' = Str(normalized)
                /\ history' = StartHistory(users, members, invites,
                                           normalized)
                /\ IF AllowListed(normalized)
                   THEN /\ result' = "true"
                        /\ pc' = "done"
                        /\ UNCHANGED lookups
                   ELSE /\ lookups' = Append(lookups, UsersQuery(normalized))
                        /\ pc' = "awaitUsers"
                        /\ UNCHANGED result
    /\ UNCHANGED <<db, existingUser, logs, failedAt, prev>>

\* the users query resolves and the members query is issued whether or not
\* a user was found
UsersQueryReturnsUnguarded ==
    /\ pc = "awaitUsers"
    /\ LET rows == SelectUsers(normalizedEmail.s) IN
        \/ /\ rows = {}
           /\ existingUser' = 0
           /\ lookups' = Append(lookups, MembersQuery(0))
        \/ \E row \in rows :
            /\ existingUser' = row.id
            /\ lookups' = Append(lookups, MembersQuery(row.id))
    /\ pc' = "awaitMembers"
    /\ UNCHANGED <<db, attempt, normalizedEmail, result, logs, failedAt,
                   history, prev>>
\* lines 148-159: the users query resolves (limit(1): one of the matching
\* rows, whose id is non-empty); with a user the members query is issued,
\* without one the invites query
UsersQueryReturns ==
    /\ pc = "awaitUsers"
    /\ LET rows == SelectUsers(normalizedEmail.s) IN
        \/ /\ rows = {}
           /\ existingUser' = 0
           /\ lookups' = Append(lookups, InvitesQuery(normalizedEmail.s))
           /\ pc' = "awaitInvites"
        \/ \E row \in rows :
            /\ existingUser' = row.id
            /\ lookups' = Append(lookups, MembersQuery(row.id))
            /\ pc' = "awaitMembers"
    /\ UNCHANGED <<db, attempt, normalizedEmail, result, logs, failedAt,
                   history, prev>>

\* lines 155-169: the members query resolves; a row allows, no row issues
\* the invites query
MembersQueryReturns ==
    /\ pc = "awaitMembers"
    /\ IF HasRows(SelectMembers(existingUser))
       THEN /\ result' = "true"
            /\ pc' = "done"
            /\ UNCHANGED lookups
       ELSE /\ lookups' = Append(lookups, InvitesQuery(normalizedEmail.s))
            /\ pc' = "awaitInvites"
            /\ UNCHANGED result
    /\ UNCHANGED <<db, attempt, normalizedEmail, existingUser, logs,
                   failedAt, history, prev>>

\* lines 165-175: the invites query resolves; a row allows, no row warns
\* and blocks
InvitesQueryReturns ==
    /\ pc = "awaitInvites"
    /\ IF HasRows(SelectInvites(normalizedEmail.s))
       THEN /\ result' = "true"
            /\ UNCHANGED logs
       ELSE /\ result' = "false"
            /\ logs' = Append(logs, BlockedLine(normalizedEmail.s))
    /\ pc' = "done"
    /\ UNCHANGED <<db, attempt, normalizedEmail, existingUser, lookups,
                   failedAt, history, prev>>

\* a rejected query caught and answered by letting the attempt through
QueryFailsOpen ==
    /\ pc \in {"awaitUsers", "awaitMembers", "awaitInvites"}
    /\ pc' = "done"
    /\ result' = "true"
    /\ failedAt' = Len(lookups)
    /\ UNCHANGED <<db, attempt, normalizedEmail, existingUser, lookups,
                   logs, history, prev>>
\* an awaited query rejects: there is no try/catch, so the async function
\* rejects at that await and runs no further statement
QueryFails ==
    /\ pc \in {"awaitUsers", "awaitMembers", "awaitInvites"}
    /\ pc' = "rejected"
    /\ failedAt' = Len(lookups)
    /\ UNCHANGED <<db, attempt, normalizedEmail, existingUser, result,
                   lookups, logs, history, prev>>

\* the framework calls signIn again for the next attempt; the finished call
\* is remembered for comparison
NextAttempt ==
    /\ pc = "done"
    /\ prev' = [set |-> TRUE, key |-> Normalize(ResolveEmail(attempt).s),
                result |-> result, lookups |-> lookups, logs |-> logs]
    /\ pc' = "idle"
    /\ attempt' = <<Undef, Undef, Undef>>
    /\ normalizedEmail' = Undef
    /\ existingUser' = 0
    /\ result' = "pending"
    /\ lookups' = <<>>
    /\ logs' = <<>>
    /\ failedAt' = 0
    /\ history' = NoHistory
    /\ UNCHANGED db

\* ------------------------------------------- other writers of the tables
\* Every writer leaves the call's own variables alone and is seen by the
\* running call only through its later queries.
Written(us, ms, is) ==
    /\ users' = us
    /\ members' = ms
    /\ invites' = is
    /\ history' = Observe(us, ms, is)
    /\ UNCHANGED <<pc, attempt, normalizedEmail, existingUser, result,
                   lookups, logs, failedAt, prev>>

CreateUser ==
    \E id \in UserIds, e \in StoredEmails :
        /\ \A u \in users : u.id # id /\ u.email # e
        /\ Written(users \cup {[id |-> id, email |-> e]}, members, invites)

\* a user is deleted, and its membership rows with it
DeleteUser ==
    \E u \in users : Written(users \ {u}, members \ {u.id}, invites)

\* a membership is given to an existing user
AddMember ==
    \E u \in users :
        /\ u.id \notin members
        /\ Written(users, members \cup {u.id}, invites)

RemoveMember ==
    \E id \in members : Written(users, members \ {id}, invites)

CreateInvite ==
    \E e \in StoredEmails \ invites :
        Written(users, members, invites \cup {e})

DeleteInvite ==
    \E e \in invites : Written(users, members, invites \ {e})

\* an invite is accepted: in one transaction the invite goes and the
\* invited email becomes a user with a membership
AcceptInvite ==
    \E e \in invites :
        \/ \E u \in users :
            /\ u.email = e
            /\ Written(users, members \cup {u.id}, invites \ {e})
        \/ /\ \A u \in users : u.email # e
           /\ \E id \in UserIds :
                /\ \A u \in users : u.id # id
                /\ Written(users \cup {[id |-> id, email |-> e]},
                           members \cup {id}, invites \ {e})

\* ---------------------------------------------------------- specification
IdleCall ==
    /\ pc = "idle"
    /\ attempt = <<Undef, Undef, Undef>>
    /\ normalizedEmail = Undef
    /\ existingUser = 0
    /\ result = "pending"
    /\ lookups = <<>>
    /\ logs = <<>>
    /\ failedAt = 0
    /\ history = NoHistory

Init ==
    /\ users \in UsersTables
    /\ members \in SUBSET {u.id : u \in users}
    /\ invites \in SUBSET StoredEmails
    /\ IdleCall
    /\ prev = NoPrev

\* one signIn call on tables that nobody writes
Next ==
    \/ Call(Attempts)
    \/ UsersQueryReturns
    \/ MembersQueryReturns
    \/ InvitesQueryReturns
    \/ QueryFails

Spec == Init /\ [][Next]_vars

\* one signIn call after another on the same tables
NextRel ==
    \/ Call(EmailOnlyAttempts)
    \/ UsersQueryReturns
    \/ MembersQueryReturns
    \/ InvitesQueryReturns
    \/ QueryFails
    \/ NextAttempt

SpecRel == Init /\ [][NextRel]_vars

\* one signIn call while other processes write the tables
NextConc ==
    \/ Call(EmailOnlyAttempts)
    \/ UsersQueryReturns
    \/ MembersQueryReturns
    \/ InvitesQueryReturns
    \/ QueryFails
    \/ CreateUser
    \/ DeleteUser
    \/ AddMember
    \/ RemoveMember
    \/ CreateInvite
    \/ DeleteInvite
    \/ AcceptInvite

SpecConc == Init /\ [][NextConc]_vars

TypeOK ==
    /\ users \in UsersTables
    /\ members \subseteq {u.id : u \in users}
    /\ invites \subseteq StoredEmails
    /\ pc \in {"idle", "awaitUsers", "awaitMembers", "awaitInvites", "done",
               "rejected"}
    /\ result \in {"pending", "true", "false"}
    /\ existingUser \in 0..MaxUsers
    /\ failedAt \in 0..3


\* ------------------------------------------------------------- properties
\* "lower-cased and trimmed", stated without toLowerCase().trim(): with
\* lead the length of the white space the string starts with and trail the
\* length of the white space it ends with, the characters between the two,
\* each upper-case letter replaced by its lower-case letter
Canonical(str) ==
    LET n == Len(str)
        lead == CHOOSE m \in 0..n :
            /\ \A i \in 1..m : str[i] \in WhiteSpace
            /\ m < n => str[m + 1] \notin WhiteSpace
        trail == CHOOSE m \in 0..n :
            /\ \A i \in 1..m : str[n + 1 - i] \in WhiteSpace
            /\ m < n => str[n - m] \notin WhiteSpace
    IN IF lead = n THEN <<>>
       ELSE [i \in 1..(n - lead - trail) |->
                IF str[lead + i] \in DOMAIN LowerOf
                THEN LowerOf[str[lead + i]]
                ELSE str[lead + i]]

\* the attempt resolves to a non-empty string
HasEmail ==
    /\ ResolveEmail(attempt).t = "string"
    /\ ResolveEmail(attempt).s # <<>>

\* the resolved email, lower-cased and trimmed
Key == Canonical(ResolveEmail(attempt).s)

\* the resolved email differs from its normalized form k
Denormalized(k) == ResolveEmail(attempt).s # k

KeyHasUser(k) == \E u \in users : u.email = k
KeyIsMember(k) == \E u \in users : u.email = k /\ u.id \in members
KeyIsInvited(k) == k \in invites
KeyAllowListed(k) == k \in INVITE_ONLY_ALLOWED_EMAILS

\* C1: a call whose lookups all complete, on tables nobody writes, returns
\* true exactly when the resolved email, lower-cased and trimmed, is in the
\* allow-list, or the email of a user with a membership, or an invited
\* email; otherwise it returns false.
InviteOnlyGate ==
    LET k == Key IN
    pc = "done" =>
        /\ result \in {"true", "false"}
        /\ result = "true" <=>
            /\ HasEmail
            /\ KeyAllowListed(k) \/ KeyIsMember(k) \/ KeyIsInvited(k)

InviteOnlyGateWitness ==
    LET k == Key IN
    /\ pc = "done"
    /\ result = "true"
    /\ Denormalized(k)
    /\ KeyIsMember(k)
    /\ ~KeyIsInvited(k)
    /\ ~KeyAllowListed(k)

\* C2: an email whose lower-cased, trimmed form is in the allow-list is let
\* in by the call without any users, members or invites query.
AllowListNoLookup ==
    LET k == Key IN
    (pc # "idle" /\ HasEmail /\ KeyAllowListed(k)) =>
        /\ pc = "done"
        /\ result = "true"
        /\ lookups = <<>>

AllowListNoLookupWitness ==
    LET k == Key IN
    /\ pc = "done"
    /\ HasEmail
    /\ KeyAllowListed(k)
    /\ Denormalized(k)
    /\ Len(ResolveEmail(attempt).s) > Len(k)
    /\ result = "true"

\* C3 as stated: every email that is not in the allow-list, absent or
\* malformed is denied.
NotAllowListedDenied ==
    LET k == Key IN
    (pc = "done" /\ (~HasEmail \/ ~KeyAllowListed(k))) => result = "false"

\* C3 amended: every email that is absent, or that is not in the allow-list
\* and is neither the email of a member nor invited, is denied.
UnknownEmailDenied ==
    LET k == Key IN
    (pc = "done"
        /\ \/ ~HasEmail
           \/ ~KeyAllowListed(k) /\ ~KeyIsMember(k) /\ ~KeyIsInvited(k))
    => result = "false"

UnknownEmailDeniedWitness ==
    LET k == Key IN
    /\ pc = "done"
    /\ HasEmail
    /\ ~KeyAllowListed(k)
    /\ ~KeyIsMember(k)
    /\ ~KeyIsInvited(k)
    /\ invites # {}
    /\ members # {}
    /\ result = "false"

\* C4: when user.email, the email argument and credentials.email are all
\* absent, empty or not strings, the call returns false at once: no query,
\* no rejection, whatever the tables hold.
MissingEmailDenied ==
    (pc # "idle"
        /\ \A i \in 1..3 : ~(attempt[i].t = "string" /\ attempt[i].s # <<>>))
    => /\ pc = "done"
       /\ result = "false"
       /\ lookups = <<>>
       /\ failedAt = 0

MissingEmailDeniedWitness ==
    /\ pc = "done"
    /\ attempt = <<Str(<<>>), Obj, Str(<<>>)>>
    /\ result = "false"
    /\ users # {}
    /\ members # {}
    /\ invites # {}

\* C5 as stated: an email with a user record, no membership record and no
\* invite is denied, for every such email.
UserWithoutMembershipDenied ==
    LET k == Key IN
    (pc = "done" /\ HasEmail /\ KeyHasUser(k)
        /\ ~KeyIsMember(k) /\ ~KeyIsInvited(k))
    => result = "false"

\* C5 amended: an email outside the allow-list with a user record, no
\* membership record and no invite is denied.
PlainUserWithoutMembershipDenied ==
    LET k == Key IN
    (pc = "done" /\ HasEmail /\ KeyHasUser(k)
        /\ ~KeyIsMember(k) /\ ~KeyIsInvited(k) /\ ~KeyAllowListed(k))
    => result = "false"

PlainUserWithoutMembershipDeniedWitness ==
    LET k == Key IN
    /\ pc = "done"
    /\ HasEmail
    /\ KeyHasUser(k)
    /\ ~KeyIsMember(k)
    /\ ~KeyIsInvited(k)
    /\ ~KeyAllowListed(k)
    /\ Len(lookups) = 3
    /\ result = "false"

\* C6: two candidate emails with the same lower-cased, trimmed form get, on
\* the same tables, the same decision and the same queries with the same
\* keys (and so the same allow-list match).
SameKeySameTreatment ==
    LET k == Key IN
    (pc = "done" /\ prev.set /\ prev.key = k) =>
        /\ prev.result = result
        /\ prev.lookups = lookups

\* C7 as stated: a call that returns false emits exactly one log line
\* naming the normalized email, a call that returns true emits none.
OneLinePerDenial ==
    LET k == Key IN
    pc = "done" =>
        /\ result = "false" => (Len(logs) = 1 /\ logs[1].email = k)
        /\ result = "true" => logs = <<>>

\* C7 amended: a call that returns false for an email it resolved emits
\* exactly one log line naming the normalized email; a call that returns
\* false because no email was resolved, or that returns true, emits none.
OneLinePerResolvedDenial ==
    LET k == Key IN
    /\ Len(logs) <= 1
    /\ pc = "done" =>
        IF result = "false" /\ HasEmail
        THEN Len(logs) = 1 /\ logs[1].level = "warn" /\ logs[1].email = k
        ELSE logs = <<>>

OneLinePerResolvedDenialWitness ==
    LET k == Key IN
    /\ pc = "done"
    /\ result = "false"
    /\ HasEmail
    /\ Denormalized(k)
    /\ k # <<>>
    /\ Len(logs) = 1

\* C8: within one call the queries run in strict order and stop at the
\* first match: users only after the allow-list failed, members only after
\* and only if users found a user, invites only after the members step did
\* not allow, each at most once, none after the call allowed, and no write.
LookupTables == [i \in 1..Len(lookups) |-> lookups[i].table]

OrderOK ==
    LET k == Key IN
    /\ LookupTables \in
        {<<>>, <<"users">>,
         <<"users", "organizationMembers">>,
         <<"users", "organizationInvites">>,
         <<"users", "organizationMembers", "organizationInvites">>}
    /\ lookups # <<>> =>
        (HasEmail /\ ~KeyAllowListed(k) /\ lookups[1].email = k)
    /\ \A i \in 1..Len(lookups) :
        /\ lookups[i].table = "organizationMembers" =>
            \E u \in users : u.email = k /\ u.id = lookups[i].userId
        /\ lookups[i].table = "organizationInvites" =>
            (~KeyIsMember(k) /\ lookups[i].email = k)
    /\ (result = "true" /\ lookups = <<>>) => KeyAllowListed(k)
    /\ (result = "true" /\ lookups # <<>>) =>
        LET last == lookups[Len(lookups)] IN
        \/ last.table = "organizationMembers" /\ last.userId \in members
        \/ last.table = "organizationInvites" /\ last.email \in invites

StrictOrder ==
    /\ []OrderOK
    /\ [][/\ db' = db
          /\ result = "true" => lookups' = lookups]_vars

StrictOrderWitness ==
    LET k == Key IN
    /\ pc = "done"
    /\ result = "true"
    /\ Len(lookups) = 3
    /\ KeyHasUser(k)

\* C9: when the users, members or invites query fails, the call never
\* returns true and issues no query after the failed one.
FailClosed ==
    /\ failedAt # 0 =>
        /\ pc = "rejected"
        /\ result = "pending"
        /\ Len(lookups) = failedAt
    /\ pc = "rejected" => failedAt # 0

FailClosedWitness ==
    LET k == Key IN
    /\ pc = "rejected"
    /\ failedAt = 2
    /\ lookups[2].table = "organizationMembers"
    /\ KeyIsMember(k)

\* C10: while other processes write the tables during the lookups of a
\* call, an email that is a member or invited in every table state of the
\* call is let in, and one that is a member or invited in no table state of
\* the call is denied.
ConsistentDecision ==
    (pc = "done" /\ history.running /\ lookups # <<>>) =>
        /\ history.alwaysAuth => result = "true"
        /\ history.neverAuth => result = "false"

====
